---- MODULE Spec2Model ----
(***************************************************************************)
(* The intent store and the request handlers of the multisigner UI         *)
(* (create-intent, submit-signature, submit-intent, get-intent), run       *)
(* against a model of the chain they read and write.                       *)
(*                                                                         *)
(* The handlers are async functions on a single-threaded event loop: the   *)
(* code between two awaited chain calls runs without interruption, and     *)
(* any other handler, or the chain itself, may run at an await.  Each      *)
(* action below is one such uninterrupted piece: it starts when the        *)
(* awaited call of the previous piece returns and runs to the next         *)
(* awaited call (or to the response).  The position of a handler is the    *)
(* call it awaits.                                                         *)
(***************************************************************************)
EXTENDS Integers, Sequences, FiniteSets, TLC

\* ------------------------------------------------------------------ bounds
MaxIntents == 1     \* intents created in one run
MaxHandlers == 2    \* requests in flight at once
MaxSeq == 1         \* cap of each sequence's nonce counter
MaxTx == 2          \* execute transactions broadcast in one run
MaxRequests == 4    \* requests received in one run
MaxSigs == 2        \* signatures in a list handed to the envelope encoder

Slots == 1..MaxHandlers
\* The identifiers a request can name: those of the intents created and
\* one more, which names no intent unless a further intent is created.
IntentIds == 1..(MaxIntents + 1)
TxHashes == 1..MaxTx

\* ------------------------------------------------------------ input values
KeyHashes == {"O1", "O2", "O3"}
\* What getConfig(account, externalKeyHash) of the contract at the request's
\* multisigAddress can return, a (uint256, bytes32[]) pair: a policy as
\* configured at the time of the read, (0, []) when none is, and a pair whose
\* threshold no set of the listed owners can meet.
Configs ==
    { [threshold |-> 2, owners |-> <<"O1", "O2", "O3">>],
      [threshold |-> 1, owners |-> <<"O1", "O2">>],
      [threshold |-> 3, owners |-> <<"O1", "O2">>],
      [threshold |-> 0, owners |-> <<>>] }
SeqKeys == {0, 1}
CallLists == { << [to |-> "T", value |-> 5, data |-> "0x"] >> }
Account == "A"
ExternalKeyHash == "H"

\* viem.ts: the execute mode of a single batch that carries opData.
MODE_SINGLE_WITH_OPDATA ==
    "0x0100000000007821000100000000000000000000000000000000000000000000"
\* externalKey.ts: the execute mode of a single batch without opData.
MODE_SINGLE_NO_OPDATA ==
    "0x0100000000000000000000000000000000000000000000000000000000000000"

Nil == [nil |-> TRUE]
NoHash == 0                       \* txHash?: undefined

\* A uint256 nonce is (seqKey << 64) | seq; the pair stands for it.
Nonce(k, s) == [key |-> k, seq |-> s]

\* A wrapped signature: inner signature ++ keyHash (32 bytes) ++ prehash flag
\* (1 byte).  body says what the inner signature signs: the digest itself
\* ("raw"), sha256 of the digest ("hashed"), or nothing of the kind ("bad").
\* long: the hex string has at least 2+64+64+64+2 characters, the length of
\* the shortest wrapped signature a P256, WebAuthn or secp256k1 key produces.
WrappedShape ==
    { [key |-> "O1", body |-> "raw", flag |-> 0, long |-> TRUE],
      [key |-> "O1", body |-> "raw", flag |-> 1, long |-> TRUE],
      [key |-> "O2", body |-> "hashed", flag |-> 0, long |-> TRUE],
      [key |-> "O3", body |-> "raw", flag |-> 0, long |-> TRUE],
      [key |-> "O3", body |-> "bad", flag |-> 0, long |-> TRUE],
      [key |-> "O1", body |-> "raw", flag |-> 0, long |-> FALSE] }

RangeOf(s) == { s[i] : i \in 1..Len(s) }

\* -------------------------------------------------------------------- state
VARIABLES
    DB,            \* store.ts DB: intent id -> Intent
    walletClient,  \* viem.ts walletClient: defined iff RELAYER_PRIVATE_KEY is set
    chainNonce,    \* the account's nonce counter of each sequence key
    digestVer,     \* version of the account implementation computing digests
    now,           \* Date.now()
    txs,           \* execute transactions broadcast: hash -> [intent, data, status]
    requests,      \* requests received so far
    handlers,      \* the requests in flight and the responses of the finished ones
    enc            \* the last call of an encoder of the client library and its result

storeVars == <<DB, walletClient, chainNonce, digestVer, now, txs, requests, handlers>>
vars == <<DB, walletClient, chainNonce, digestVer, now, txs, requests, handlers, enc>>

\* No encoder has been called.
NoCall == [op |-> "none"]

Idle == [kind |-> "idle", pc |-> "done", id |-> 0, req |-> Nil, loc |-> Nil,
         result |-> Nil]

Free(h) == handlers[h].pc = "done"
\* A new request takes the lowest free slot (the slots are interchangeable).
Takes(h) == Free(h) /\ \A g \in Slots : g < h => ~Free(g)

\* A handler that starts over from the nonce read when its send fails.
Done_retry(h, res) ==
    IF handlers[h].kind = "submit" /\ handlers[h].pc = "writeContract"
    THEN [handlers[h] EXCEPT !.pc = "getNonce",
             !.loc = [executionData |-> handlers[h].loc.executionData]]
    ELSE [handlers[h] EXCEPT !.pc = "done", !.req = Nil, !.loc = Nil, !.result = res]

\* The response is sent: the handler's variables are gone.
Done(h, res) ==
    [handlers[h] EXCEPT !.pc = "done", !.req = Nil, !.loc = Nil, !.result = res]

Init ==
    /\ DB = << >>
    /\ walletClient \in BOOLEAN
    /\ chainNonce = [k \in SeqKeys |-> 0]
    /\ digestVer = 0
    /\ now = 1
    /\ requests = 0
    /\ txs = << >>
    /\ handlers = [h \in Slots |-> Idle]
    /\ enc = NoCall

\* ------------------------------------------------------------ chain reads
\* account.getNonce(seqKey)
getNonce(k) == Nonce(k, chainNonce[k])

\* A digest that takes the nonce for one of the default sequence.
computeDigest_defaultSequence(calls, nonce) ==
    [calls |-> calls, nonce |-> Nonce(0, nonce.seq), ver |-> digestVer]

\* account.computeDigest(calls, nonce): the EIP-712 hash of the calls and the
\* nonce under the account implementation's domain.
computeDigest(calls, nonce) == [calls |-> calls, nonce |-> nonce, ver |-> digestVer]

\* account.unwrapAndValidateSignature(digest, signature): the last byte is
\* the prehash flag (non-zero: the inner signature is checked against
\* sha256(digest)), the 32 bytes before it the key hash.  A signature too
\* short to hold them makes the call revert.
unwrapAndValidateSignature(digest, sig) ==
    [reverted |-> ~sig.long,
     ok |-> /\ sig.long
            /\ sig.digest = digest
            /\ \/ sig.flag = 0 /\ sig.body = "raw"
               \/ sig.flag # 0 /\ sig.body = "hashed",
     ownerKh |-> sig.key]

\* ------------------------------------------------- POST /api/intents (create)
\* The request body: seqKey (default '0') and the calls.
\* cap: the number of intents created in one run.
CreateStartUpTo(h, cap) ==
    /\ Takes(h)
    /\ requests < MaxRequests
    /\ requests' = requests + 1
    /\ Cardinality(DOMAIN DB)
         + Cardinality({g \in Slots : handlers[g].kind = "create" /\ ~Free(g)})
         < cap
    /\ \E k \in SeqKeys, cs \in CallLists :
          handlers' = [handlers EXCEPT ![h] =
              [kind |-> "create", pc |-> "getConfig", id |-> 0,
               req |-> [seqKey |-> k, calls |-> cs], loc |-> Nil, result |-> Nil]]
    /\ UNCHANGED <<enc, DB, walletClient, chainNonce, digestVer, now, txs>>

CreateStart(h) == CreateStartUpTo(h, MaxIntents)

\* A guard that lets a policy without owners through.
noOwners_never(ownerKeyHashes) == FALSE

\* !ownerKeyHashes?.length
noOwners(ownerKeyHashes) == Len(ownerKeyHashes) = 0

\* getConfig returns: no owners is a 400, otherwise getNonce is read next.
CreateGetConfig(h) ==
    /\ handlers[h].kind = "create" /\ handlers[h].pc = "getConfig"
    /\ \E cfg \in Configs :
          handlers' = [handlers EXCEPT ![h] =
              IF noOwners(cfg.owners)
              THEN Done(h, [code |-> 400,
                            error |-> "No owners configured for this keyHash"])
              ELSE [handlers[h] EXCEPT !.pc = "getNonce", !.loc = [cfg |-> cfg]]]
    /\ UNCHANGED <<enc, DB, walletClient, chainNonce, digestVer, now, txs, requests>>

\* getNonce(seqKey) returns; computeDigest is read next.
CreateGetNonce(h) ==
    /\ handlers[h].kind = "create" /\ handlers[h].pc = "getNonce"
    /\ handlers' = [handlers EXCEPT ![h] =
          [handlers[h] EXCEPT !.pc = "computeDigest",
              !.loc = [cfg |-> handlers[h].loc.cfg,
                       nonce |-> getNonce(handlers[h].req.seqKey)]]]
    /\ UNCHANGED <<enc, DB, walletClient, chainNonce, digestVer, now, txs, requests>>

\* randomUUID(): an identifier no stored intent has.
randomUUID == Cardinality(DOMAIN DB) + 1

\* A store that keeps only the intent put last.
upsertIntent_alone(i) == [x \in {i.id} |-> i]

\* store.ts upsertIntent
upsertIntent(i) == [x \in DOMAIN DB \cup {i.id} |-> IF x = i.id THEN i ELSE DB[x]]

\* computeDigest returns: the intent is stored and described in the response.
CreateStore(h) ==
    /\ handlers[h].kind = "create" /\ handlers[h].pc = "computeDigest"
    /\ LET req == handlers[h].req
           loc == handlers[h].loc
           intent == [id |-> randomUUID,
                      account |-> Account,
                      chainId |-> 84532,
                      externalKeyHash |-> ExternalKeyHash,
                      seqKey |-> req.seqKey,
                      nonce |-> loc.nonce,
                      digest |-> computeDigest(req.calls, loc.nonce),
                      calls |-> req.calls,
                      threshold |-> loc.cfg.threshold,
                      owners |-> loc.cfg.owners,
                      signatures |-> << >>,
                      status |-> "collecting",
                      txHash |-> NoHash]
       IN /\ DB' = upsertIntent(intent)
          /\ handlers' = [handlers EXCEPT ![h] =
                [Done(h, [code |-> 200, id |-> intent.id, digest |-> intent.digest,
                          threshold |-> intent.threshold, owners |-> intent.owners])
                 EXCEPT !.id = intent.id]]
    /\ UNCHANGED <<enc, walletClient, chainNonce, digestVer, now, txs, requests>>

\* One of the three chain reads throws: nothing catches it, the request ends
\* with a 500 and nothing is stored.
CreateReadFails(h) ==
    /\ handlers[h].kind = "create" /\ ~Free(h)
    /\ handlers' = [handlers EXCEPT ![h] = Done(h, [code |-> 500, error |-> "read failed"])]
    /\ UNCHANGED <<enc, DB, walletClient, chainNonce, digestVer, now, txs, requests>>

\* --------------------------------------------------------------- store.ts
getIntent(id) == IF id \in DOMAIN DB THEN DB[id] ELSE Nil

\* A setIntent that patches the intent as it was created, not as it is now.
setIntent_fromCreated(id, patch) ==
    IF id \notin DOMAIN DB THEN DB
    ELSE [DB EXCEPT ![id] =
            [f \in DOMAIN DB[id] |->
                IF f \in DOMAIN patch THEN patch[f]
                ELSE IF f = "status" THEN "collecting"
                ELSE IF f = "txHash" THEN NoHash
                ELSE DB[id][f]]]

\* A setIntent that recomputes the digest of the object it stores.
setIntent_rederive(id, patch) ==
    IF id \notin DOMAIN DB THEN DB
    ELSE [DB EXCEPT ![id] =
            [f \in DOMAIN DB[id] |->
                IF f \in DOMAIN patch THEN patch[f]
                ELSE IF f = "digest" THEN computeDigest(DB[id].calls, DB[id].nonce)
                ELSE DB[id][f]]]

\* setIntent(id, patch): { ...now, ...patch } replaces the stored object; an
\* unknown id changes nothing.
setIntent(id, patch) ==
    IF id \notin DOMAIN DB THEN DB
    ELSE [DB EXCEPT ![id] =
            [f \in DOMAIN DB[id] |-> IF f \in DOMAIN patch THEN patch[f] ELSE DB[id][f]]]

\* ------------------------------------ POST /api/intents/[id]/sign (part_002)
\* The `intent` a handler holds is the object getIntent returned.  Every
\* object setIntent stores for an id is a shallow copy of the previous one, so
\* all of them share the one signatures array created with the intent: what a
\* handler reads through intent.signatures is the array as it is now, which
\* is DB[id].signatures.  The other fields the handlers read never change.

\* A call that takes every signature for valid.
tryOnce_trusting(digest, sig) ==
    [ok |-> TRUE, ownerKh |-> sig.key, sig |-> sig]

tryOnce(digest, sig) ==
    LET r == unwrapAndValidateSignature(digest, sig)
    IN IF r.reverted THEN [ok |-> FALSE, ownerKh |-> "0x", sig |-> sig]
       ELSE [ok |-> r.ok, ownerKh |-> r.ownerKh, sig |-> sig]

\* hex.length < 2 + 64 + 64 + 64 + 2
malformedLength(wrapped) == ~wrapped.long

\* A retry that sends the same last byte again.
flippedLast2_same(flag) == flag

\* last2 === '01' ? '00' : '01'
flippedLast2(flag) == IF flag = 1 THEN 0 ELSE 1

flipped(wrapped) == [wrapped EXCEPT !.flag = flippedLast2(wrapped.flag)]

\* An authorization check that lets every recovered key through.
isOwner_any(intent, ownerKeyHash) == TRUE

\* intent.owners.some(k => k.toLowerCase() === ownerKeyHash.toLowerCase());
\* owners and ownerKeyHash are both bytes32 values read from the chain, which
\* viem returns in lower case.
isOwner(intent, ownerKeyHash) == ownerKeyHash \in RangeOf(intent.owners)

\* A duplicate check that finds nothing.
alreadySigned_none(signatures, ownerKeyHash) == FALSE

\* intent.signatures.some(s => s.ownerKeyHash.toLowerCase() === ...)
alreadySigned(signatures, ownerKeyHash) ==
    \E i \in 1..Len(signatures) : signatures[i].ownerKeyHash = ownerKeyHash

\* A duplicate answered as if it had been appended.
duplicateResponse_recount(intent) ==
    [code |-> 200, ok |-> TRUE, k |-> Len(intent.signatures) + 1, M |-> intent.threshold]

\* The response to a signature the owner has already given.
duplicateResponse(intent) ==
    [code |-> 200, ok |-> TRUE, k |-> Len(intent.signatures), M |-> intent.threshold]

\* An entry that holds the signature with its last byte cleared.
newEntry_cleared(checked) ==
    [ownerKeyHash |-> checked.ownerKh,
     sig |-> [checked.sig EXCEPT !.flag = 0],
     at |-> now]

\* The entry pushed for a validated signature.
newEntry(checked) == [ownerKeyHash |-> checked.ownerKh, sig |-> checked.sig, at |-> now]

\* A push that puts the new entry first.
push_front(signatures, entry) == <<entry>> \o signatures

\* intent.signatures.push(entry)
push(signatures, entry) == Append(signatures, entry)

\* The checks with collection closed once the threshold is reached.
verdict_gated(intent, checked) ==
    IF ~checked.ok THEN "Invalid signature"
    ELSE IF ~isOwner(intent, checked.ownerKh) THEN "Signer not authorized"
    ELSE IF alreadySigned(intent.signatures, checked.ownerKh) THEN "duplicate"
    ELSE IF Len(intent.signatures) >= intent.threshold THEN "duplicate"
    ELSE "push"

\* The checks between the result of validateWrappedSignature and the push,
\* in the order of the code: !checked.ok, then the owner check, then the
\* duplicate check.
verdict(intent, checked) ==
    IF ~checked.ok THEN "Invalid signature"
    ELSE IF ~isOwner(intent, checked.ownerKh) THEN "Signer not authorized"
    ELSE IF alreadySigned(intent.signatures, checked.ownerKh) THEN "duplicate"
    ELSE "push"

SignStart(h) ==
    /\ Takes(h)
    /\ requests < MaxRequests
    /\ requests' = requests + 1
    /\ \E id \in IntentIds :
         \/ /\ id \notin DOMAIN DB
            /\ handlers' = [handlers EXCEPT ![h] =
                  [kind |-> "sign", pc |-> "done", id |-> id, req |-> Nil, loc |-> Nil,
                   result |-> [code |-> 404, error |-> "Not found"]]]
         \/ /\ id \in DOMAIN DB
            /\ handlers' = [handlers EXCEPT ![h] =
                  [kind |-> "sign", pc |-> "done", id |-> id, req |-> Nil, loc |-> Nil,
                   result |-> [code |-> 400, error |-> "Missing wrappedSignature"]]]
         \/ /\ id \in DOMAIN DB
            /\ \E shape \in WrappedShape, d \in {DB[i].digest : i \in DOMAIN DB} :
                 handlers' = [handlers EXCEPT ![h] =
                    [kind |-> "sign", pc |-> "computeDigest", id |-> id,
                     req |-> [key |-> shape.key, body |-> shape.body, flag |-> shape.flag,
                              long |-> shape.long, digest |-> d],
                     loc |-> Nil, result |-> Nil]]
    /\ UNCHANGED <<enc, DB, walletClient, chainNonce, digestVer, now, txs>>

\* A comparison that accepts every recomputed digest.
matches_any(onChainDigest, digest) == TRUE

\* onChainDigest.toLowerCase() === intent.digest.toLowerCase(): both are
\* bytes32 values read from the chain, which viem returns in lower case, so
\* the strings compared are the digests themselves.
matches(onChainDigest, digest) == onChainDigest = digest

\* computeDigest returns: a digest other than the stored one ends the request.
SignDigest(h) ==
    /\ handlers[h].kind = "sign" /\ handlers[h].pc = "computeDigest"
    /\ LET intent == getIntent(handlers[h].id)
           onChainDigest == computeDigest(intent.calls, intent.nonce)
       IN handlers' = [handlers EXCEPT ![h] =
             IF ~matches(onChainDigest, intent.digest) THEN Done(h, [code |-> 400, error |-> "Digest mismatch"])
             ELSE [handlers[h] EXCEPT !.pc = "tryOriginal", !.loc = [warn |-> FALSE]]]
    /\ UNCHANGED <<enc, DB, walletClient, chainNonce, digestVer, now, txs, requests>>

\* computeDigest throws: the catch logs a warning (console.warn) and
\* validation goes on.
SignDigestFails(h) ==
    /\ handlers[h].kind = "sign" /\ handlers[h].pc = "computeDigest"
    /\ handlers' = [handlers EXCEPT ![h] =
          [handlers[h] EXCEPT !.pc = "tryOriginal", !.loc = [warn |-> TRUE]]]
    /\ UNCHANGED <<enc, DB, walletClient, chainNonce, digestVer, now, txs, requests>>

\* From the result of validateWrappedSignature to the response, without an
\* await: the authorization check, the duplicate check, the push, setIntent.
Accept(h, checked) ==
    LET intent == getIntent(handlers[h].id)
        pushed == push(intent.signatures, newEntry(checked))
        v == verdict(intent, checked)
    IN IF v \in {"Invalid signature", "Signer not authorized"}
       THEN /\ handlers' = [handlers EXCEPT ![h] = Done(h, [code |-> 400, error |-> v])]
            /\ UNCHANGED <<DB, now>>
       ELSE IF v = "duplicate"
       THEN /\ handlers' = [handlers EXCEPT ![h] = Done(h, duplicateResponse(intent))]
            /\ UNCHANGED <<DB, now>>
       ELSE /\ DB' = setIntent(intent.id, [signatures |-> pushed])
            /\ now' = now + 1
            /\ handlers' = [handlers EXCEPT ![h] =
                  Done(h, [code |-> 200, ok |-> TRUE, k |-> Len(pushed),
                           M |-> intent.threshold,
                           ready |-> Len(pushed) >= intent.threshold])]

\* The first unwrapAndValidateSignature returns (or reverts).
SignTryOriginal(h) ==
    /\ handlers[h].kind = "sign" /\ handlers[h].pc = "tryOriginal"
    /\ LET intent == getIntent(handlers[h].id)
           wrapped == handlers[h].req
           res == tryOnce(intent.digest, wrapped)
       IN IF res.ok \/ malformedLength(wrapped)
          THEN Accept(h, res)
          ELSE /\ handlers' = [handlers EXCEPT ![h] =
                     [handlers[h] EXCEPT !.pc = "tryFlipped", !.loc = [res |-> res]]]
               /\ UNCHANGED <<DB, now>>
    /\ UNCHANGED <<enc, walletClient, chainNonce, digestVer, txs, requests>>

\* The second one, of the flipped signature, returns (or reverts).
SignTryFlipped(h) ==
    /\ handlers[h].kind = "sign" /\ handlers[h].pc = "tryFlipped"
    /\ LET intent == getIntent(handlers[h].id)
           res2 == tryOnce(intent.digest, flipped(handlers[h].req))
       IN Accept(h, IF res2.ok THEN res2 ELSE handlers[h].loc.res)
    /\ UNCHANGED <<enc, walletClient, chainNonce, digestVer, txs, requests>>

\* --------------------------------- POST /api/intents/[id]/submit (route.ts)
\* An envelope whose trailing byte follows the flags of the signatures.
executionData_flagged(intent) ==
    [calls |-> intent.calls,
     opData |-> [nonce |-> intent.nonce,
                 ownerSigs |-> [i \in 1..Len(intent.signatures) |-> intent.signatures[i].sig],
                 externalKeyHash |-> intent.externalKeyHash,
                 prehash |-> IF \E i \in 1..Len(intent.signatures) :
                                    intent.signatures[i].sig.flag = 1
                             THEN 1 ELSE 0]]

\* aggregated = abi.encode(bytes[] ownerSigs); outer = aggregated ++
\* externalKeyHash ++ 0x00; opData = nonce (32 bytes) ++ outer;
\* executionData = abi.encode(calls, opData).
executionData(intent) ==
    [calls |-> intent.calls,
     opData |-> [nonce |-> intent.nonce,
                 ownerSigs |-> [i \in 1..Len(intent.signatures) |-> intent.signatures[i].sig],
                 externalKeyHash |-> intent.externalKeyHash,
                 prehash |-> 0]]

\* A guard that is never taken.
nonceMismatch_never(intent, currentNonce) == FALSE

\* A guard that only rejects an intent nonce ahead of the live one.
nonceMismatch_ahead(intent, currentNonce) == intent.nonce.seq > currentNonce.seq

\* BigInt(intent.nonce) !== currentNonce
nonceMismatch(intent, currentNonce) == intent.nonce # currentNonce

\* A patch that stores the status without the hash.
submittedPatch_nohash(hash) == [status |-> "submitted"]

\* setIntent(intent.id, { status: 'submitted', txHash: hash })
submittedPatch(hash) == [status |-> "submitted", txHash |-> hash]

\* A patch that leaves the status as the send wrote it.
receiptPatch_submitted(receipt) == [status |-> "submitted"]

\* A patch that reads the receipt the wrong way round.
receiptPatch_inverted(receipt) ==
    [status |-> IF receipt.status = "success" THEN "failed" ELSE "confirmed"]

\* A patch that clears the hash with the status.
receiptPatch_clears(receipt) ==
    [status |-> IF receipt.status = "success" THEN "confirmed" ELSE "failed",
     txHash |-> NoHash]

\* setIntent(intent.id, { status: receipt.status === 'success' ? 'confirmed' : 'failed' })
receiptPatch(receipt) ==
    [status |-> IF receipt.status = "success" THEN "confirmed" ELSE "failed"]

\* A catch that puts the intent back to collecting.
catchPatch_collecting == [status |-> "collecting"]

\* catch: setIntent(intent.id, { status: 'failed' })
catchPatch == [status |-> "failed"]

\* A threshold check that lets a count one short of the threshold through.
notEnough_oneShort(intent) == Len(intent.signatures) + 1 < intent.threshold

\* A threshold check that lets every count through.
notEnough_never(intent) == FALSE

\* intent.signatures.length < intent.threshold
notEnough(intent) == Len(intent.signatures) < intent.threshold

SubmitStart(h) ==
    /\ Takes(h)
    /\ requests < MaxRequests
    /\ requests' = requests + 1
    /\ \E id \in IntentIds :
         LET intent == getIntent(id)
         IN handlers' = [handlers EXCEPT ![h] =
              IF intent = Nil
              THEN [kind |-> "submit", pc |-> "done", id |-> id, req |-> Nil, loc |-> Nil,
                    result |-> [code |-> 404, error |-> "Not found"]]
              ELSE IF ~walletClient
              THEN [kind |-> "submit", pc |-> "done", id |-> id, req |-> Nil, loc |-> Nil,
                    result |-> [code |-> 500, error |-> "RELAYER_PRIVATE_KEY missing"]]
              ELSE IF notEnough(intent)
              THEN [kind |-> "submit", pc |-> "done", id |-> id, req |-> Nil, loc |-> Nil,
                    result |-> [code |-> 400, error |-> "Not enough signatures"]]
              ELSE [kind |-> "submit", pc |-> "getNonce", id |-> id, req |-> Nil,
                    loc |-> [executionData |-> executionData(intent)], result |-> Nil]]
    /\ UNCHANGED <<enc, DB, walletClient, chainNonce, digestVer, now, txs>>

\* getNonce(0n) returns: a nonce other than the intent's ends the request,
\* the same nonce lets it call writeContract.
SubmitGetNonce(h) ==
    /\ handlers[h].kind = "submit" /\ handlers[h].pc = "getNonce"
    /\ LET intent == getIntent(handlers[h].id)
           currentNonce == getNonce(0)
       IN handlers' = [handlers EXCEPT ![h] =
             IF nonceMismatch(intent, currentNonce)
             THEN Done(h, [code |-> 400, error |-> "Nonce mismatch",
                           intentNonce |-> intent.nonce, currentNonce |-> currentNonce])
             ELSE [handlers[h] EXCEPT !.pc = "writeContract",
                      !.loc = [executionData |-> handlers[h].loc.executionData,
                               currentNonce |-> currentNonce]]]
    /\ UNCHANGED <<enc, DB, walletClient, chainNonce, digestVer, now, txs, requests>>

\* getNonce throws: nothing catches it.
SubmitNonceReadFails(h) ==
    /\ handlers[h].kind = "submit" /\ handlers[h].pc = "getNonce"
    /\ handlers' = [handlers EXCEPT ![h] = Done(h, [code |-> 500, error |-> "read failed"])]
    /\ UNCHANGED <<enc, DB, walletClient, chainNonce, digestVer, now, txs, requests>>

\* writeContract returns the hash of the broadcast transaction: the intent
\* is stored as submitted and the receipt is awaited.
SubmitSent(h) ==
    /\ handlers[h].kind = "submit" /\ handlers[h].pc = "writeContract"
    /\ Cardinality(DOMAIN txs) < MaxTx
    /\ LET hash == Cardinality(DOMAIN txs) + 1
       IN /\ txs' = [t \in DOMAIN txs \cup {hash} |->
                        IF t = hash
                        THEN [intent |-> handlers[h].id,
                              mode |-> MODE_SINGLE_WITH_OPDATA,
                              data |-> handlers[h].loc.executionData,
                              status |-> "pending"]
                        ELSE txs[t]]
          /\ DB' = setIntent(handlers[h].id, submittedPatch(hash))
          /\ handlers' = [handlers EXCEPT ![h] =
                [handlers[h] EXCEPT !.pc = "waitForTransactionReceipt",
                                    !.loc = [hash |-> hash]]]
    /\ UNCHANGED <<enc, walletClient, chainNonce, digestVer, now, requests>>

\* writeContract throws (the broadcast is rejected): the catch stores failed.
SubmitSendFails(h) ==
    /\ handlers[h].kind = "submit" /\ handlers[h].pc = "writeContract"
    /\ DB' = setIntent(handlers[h].id, catchPatch)
    /\ handlers' = [handlers EXCEPT ![h] = Done(h, [code |-> 500, error |-> "submit failed"])]
    /\ UNCHANGED <<enc, walletClient, chainNonce, digestVer, now, txs, requests>>

\* waitForTransactionReceipt returns the receipt of the mined transaction.
SubmitReceipt(h) ==
    /\ handlers[h].kind = "submit" /\ handlers[h].pc = "waitForTransactionReceipt"
    /\ LET hash == handlers[h].loc.hash
           receipt == txs[hash]
       IN /\ receipt.status # "pending"
          /\ DB' = setIntent(handlers[h].id, receiptPatch(receipt))
          /\ handlers' = [handlers EXCEPT ![h] =
                Done(h, [code |-> 200, ok |-> TRUE, txHash |-> hash,
                         status |-> receipt.status])]
    /\ UNCHANGED <<enc, walletClient, chainNonce, digestVer, now, txs, requests>>

\* waitForTransactionReceipt throws (it gives up waiting): the same catch.
SubmitReceiptFails(h) ==
    /\ handlers[h].kind = "submit" /\ handlers[h].pc = "waitForTransactionReceipt"
    /\ DB' = setIntent(handlers[h].id, catchPatch)
    /\ handlers' = [handlers EXCEPT ![h] = Done(h, [code |-> 500, error |-> "submit failed"])]
    /\ UNCHANGED <<enc, walletClient, chainNonce, digestVer, now, txs, requests>>

\* ------------------------------------------- GET /api/intents/[id] (store.ts)
\* BigInt.prototype.toString(): the decimal string of the number.
toString(n) == [str |-> n]

\* The stored intent with seqKey, nonce and the call values as strings.
intentForJson(intent) ==
    [f \in DOMAIN intent |->
        IF f = "seqKey" THEN toString(intent.seqKey)
        ELSE IF f = "nonce" THEN toString(intent.nonce)
        ELSE IF f = "calls"
        THEN [i \in 1..Len(intent.calls) |->
                 [intent.calls[i] EXCEPT !.value = toString(intent.calls[i].value)]]
        ELSE intent[f]]

GET(h) ==
    /\ Takes(h)
    /\ requests < MaxRequests
    /\ requests' = requests + 1
    /\ \E id \in IntentIds :
         LET intent == getIntent(id)
         IN handlers' = [handlers EXCEPT ![h] =
              [kind |-> "get", pc |-> "done", id |-> id, req |-> Nil, loc |-> Nil,
               result |-> IF intent = Nil
                          THEN [code |-> 404, error |-> "Intent not found"]
                          ELSE [code |-> 200, intent |-> intentForJson(intent)]]]
    /\ UNCHANGED <<enc, DB, walletClient, chainNonce, digestVer, now, txs>>

\* ------------------------------------------------------------- the chain
\* A broadcast execute transaction is mined.  The account executes it only
\* if the nonce in its opData is the current nonce of that nonce's sequence,
\* and then consumes the nonce; it reverts otherwise, and it may revert for
\* reasons of its own (the policy no longer accepts the signatures, the
\* calls fail).
Mine(t) ==
    /\ t \in DOMAIN txs /\ txs[t].status = "pending"
    /\ LET nonce == txs[t].data.opData.nonce
       IN \/ /\ chainNonce[nonce.key] = nonce.seq
             /\ chainNonce' = [chainNonce EXCEPT ![nonce.key] = @ + 1]
             /\ txs' = [txs EXCEPT ![t].status = "success"]
          \/ /\ txs' = [txs EXCEPT ![t].status = "reverted"]
             /\ UNCHANGED chainNonce
    /\ UNCHANGED <<enc, DB, walletClient, digestVer, now, requests, handlers>>

\* Someone else uses the account: a nonce of sequence k is consumed.  Only
\* the default sequence and the sequences of the requested intents are ever
\* read, so only their counters are followed.
ConsumeNonce(k) ==
    /\ chainNonce[k] < MaxSeq
    /\ \/ k = 0
       \/ \E i \in DOMAIN DB : DB[i].seqKey = k
       \/ \E h \in Slots : handlers[h].kind = "create" /\ ~Free(h) /\ handlers[h].req.seqKey = k
    /\ chainNonce' = [chainNonce EXCEPT ![k] = @ + 1]
    /\ UNCHANGED <<enc, DB, walletClient, digestVer, now, txs, requests, handlers>>

\* The account is upgraded to an implementation with another EIP-712 domain:
\* computeDigest returns other digests from now on.
UpgradeAccount ==
    /\ digestVer = 0
    /\ digestVer' = 1
    /\ UNCHANGED <<enc, DB, walletClient, chainNonce, now, txs, requests, handlers>>

Next ==
    \/ \E h \in Slots : CreateStart(h)
    \/ \E h \in Slots : CreateGetConfig(h)
    \/ \E h \in Slots : CreateGetNonce(h)
    \/ \E h \in Slots : CreateStore(h)
    \/ \E h \in Slots : CreateReadFails(h)
    \/ \E h \in Slots : SignStart(h)
    \/ \E h \in Slots : SignDigest(h)
    \/ \E h \in Slots : SignDigestFails(h)
    \/ \E h \in Slots : SignTryOriginal(h)
    \/ \E h \in Slots : SignTryFlipped(h)
    \/ \E h \in Slots : SubmitStart(h)
    \/ \E h \in Slots : SubmitGetNonce(h)
    \/ \E h \in Slots : SubmitNonceReadFails(h)
    \/ \E h \in Slots : SubmitSent(h)
    \/ \E h \in Slots : SubmitSendFails(h)
    \/ \E h \in Slots : SubmitReceipt(h)
    \/ \E h \in Slots : SubmitReceiptFails(h)
    \/ \E h \in Slots : GET(h)
    \/ \E t \in TxHashes : Mine(t)
    \/ \E k \in SeqKeys : ConsumeNonce(k)
    \/ UpgradeAccount

Spec == Init /\ [][Next]_vars

\* ================================================= the encoders, byte by byte
\* A Hex value is the sequence of its bytes.  The operators below are the
\* viem functions the encoders call, computed as viem computes them, and the
\* encoders written with them.
WordSize == 32

Bytes(n, b) == [i \in 1..n |-> b]

\* toHex(value, { size }): the big-endian bytes of value, padded on the left.
\* The values encoded here stay below 2^31, so only the last four bytes can
\* be other than zero.
toHex(value, size) ==
    [i \in 1..size |-> IF size - i < 4 THEN (value \div (256 ^ (size - i))) % 256 ELSE 0]

RECURSIVE concatHex(_)
concatHex(values) ==
    IF values = << >> THEN << >> ELSE Head(values) \o concatHex(Tail(values))

\* A dynamic `bytes` value in ABI encoding: its length in one word, then the
\* bytes padded on the right to a whole number of words.
encodeBytes(value) ==
    toHex(Len(value), WordSize)
       \o value
       \o Bytes((WordSize - (Len(value) % WordSize)) % WordSize, 0)

RECURSIVE encodedSize(_, _)
\* The size of the encodings of the first k values.
encodedSize(values, k) ==
    IF k = 0 THEN 0 ELSE encodedSize(values, k - 1) + Len(encodeBytes(values[k]))

\* encodeAbiParameters([{ type: 'bytes[]' }], [values]): the offset of the
\* array (one word), its length, the offset of each element counted from
\* the end of the length word, and the elements.
encodeAbiParameters_bytesArray(values) ==
    LET n == Len(values)
    IN toHex(WordSize, WordSize)
          \o toHex(n, WordSize)
          \o concatHex([i \in 1..n |->
                 toHex(n * WordSize + encodedSize(values, i - 1), WordSize)])
          \o concatHex([i \in 1..n |-> encodeBytes(values[i])])

\* submit/route.ts: aggregated = abi.encode(bytes[] ownerSigs)
aggregated(ownerSigs) == encodeAbiParameters_bytesArray(ownerSigs)

\* An envelope with the policy key identifier in front.
outer_keyFirst(ownerSigs, externalKeyHash) ==
    concatHex(<<externalKeyHash, aggregated(ownerSigs), <<0>> >>)

\* submit/route.ts: outer = aggregated ++ externalKeyHash ++ 0x00
outer(ownerSigs, externalKeyHash) ==
    concatHex(<<aggregated(ownerSigs), externalKeyHash, <<0>> >>)

\* submit/route.ts: opData = toHex(nonce, { size: 32 }) ++ outer
opData(nonce, outerBytes) == concatHex(<<toHex(nonce, WordSize), outerBytes>>)

\* keccak256: a hash, told apart from every other value and from the hash of
\* every other input.
keccak256(value) == [keccak256 |-> value]

\* A viem encoder throws.
Thrown(name) == [thrown |-> name]

\* An External public key without the salt.
externalPublicKey_nosalt(multisig, salt12) == multisig

\* externalKey.ts externalPublicKey
externalPublicKey(multisig, salt12) == concatHex(<<multisig, salt12>>)

\* externalKey.ts computeExternalKeyHash: keccak256 of
\* encodeAbiParameters([uint8, bytes32], [3, pubHash]), two words.
computeExternalKeyHash(multisig, salt12) ==
    LET pub == externalPublicKey(multisig, salt12)
        pubHash == keccak256(pub)
        packed == <<toHex(3, WordSize), pubHash>>
    IN keccak256(packed)

\* encodeFunctionData({ abi, functionName, args }): the call, or the error
\* viem throws for an argument of a fixed-size type that has another size
\* (bytes4: 4 bytes, address: 20 bytes).
encodeFunctionData(functionName, args) ==
    IF functionName = "setCanExecute" /\ Len(args[2]) # 20
    THEN Thrown("InvalidAddressError")
    ELSE IF functionName = "setCanExecute" /\ Len(args[3]) # 4
    THEN Thrown("AbiEncodingBytesSizeMismatchError")
    ELSE [functionName |-> functionName, args |-> args]

\* encodeAbiParameters of the Call[] holding one self-call (to = 0x0).
callsEncoded(data) == << [to |-> Bytes(20, 0), value |-> 0, data |-> data] >>

\* externalKey.ts encodeAuthorizeExternalExecute
encodeAuthorizeExternalExecute(account, multisig, salt12) ==
    LET publicKey == externalPublicKey(multisig, salt12)
        key == [expiry |-> 0, keyType |-> 3, isSuperAdmin |-> FALSE,
                publicKey |-> publicKey]
        authorizeData == encodeFunctionData("authorize", <<key>>)
        data == encodeFunctionData("execute",
                    <<MODE_SINGLE_NO_OPDATA, callsEncoded(authorizeData)>>)
    IN [to |-> account, data |-> data,
        externalKeyHash |-> computeExternalKeyHash(multisig, salt12)]

\* permissions.ts encodeSetCanExecuteExecute: a throw of the inner
\* encodeFunctionData leaves the function.
encodeSetCanExecuteExecute(account, keyHash, target, fnSel, can) ==
    LET setData == encodeFunctionData("setCanExecute", <<keyHash, target, fnSel, can>>)
    IN IF "thrown" \in DOMAIN setData THEN setData
       ELSE [to |-> account,
             data |-> encodeFunctionData("execute",
                         <<MODE_SINGLE_NO_OPDATA, callsEncoded(setData)>>)]

\* ----------------------------------------------------- inputs of the encoders
\* Signatures of one byte, of exactly one word, of a word and a byte, and of
\* the 65 bytes of a secp256k1 signature.
SigBytes == { Bytes(1, 7), Bytes(32, 1), Bytes(33, 2), Bytes(65, 3) }
SigLists ==
    UNION { [1..n -> SigBytes] : n \in 0..MaxSigs }
KeyHashBytes == { Bytes(32, 170), Bytes(32, 0) }
EncNonces == { 0, 1, 258, 65536 }
Addresses == { Bytes(20, 17), Bytes(20, 34) }
\* Salts of 12 bytes, and of 11 and 13.
Salts == { Bytes(12, 0), Bytes(12, 5), Bytes(11, 0), Bytes(13, 0) }
\* permissions.ts EMPTY_CALLDATA_FN_SEL, and selectors of 3 and 5 bytes.
Selectors == { Bytes(4, 224), Bytes(3, 224), Bytes(5, 224) }

\* ------------------------------------------------------- calls of the encoders
\* submit/route.ts steps 1 to 3 on a signature list, a policy key identifier
\* and a nonce.
BuildOpData ==
    /\ \E ownerSigs \in SigLists, externalKeyHash \in KeyHashBytes, nonce \in EncNonces :
          enc' = [op |-> "opData", ownerSigs |-> ownerSigs,
                  externalKeyHash |-> externalKeyHash, nonce |-> nonce,
                  outer |-> outer(ownerSigs, externalKeyHash),
                  opData |-> opData(nonce, outer(ownerSigs, externalKeyHash))]
    /\ UNCHANGED storeVars

CallComputeExternalKeyHash ==
    /\ \E multisig \in Addresses, salt12 \in Salts :
          enc' = [op |-> "computeExternalKeyHash", multisig |-> multisig,
                  salt12 |-> salt12,
                  result |-> computeExternalKeyHash(multisig, salt12)]
    /\ UNCHANGED storeVars

CallEncodeAuthorizeExternalExecute ==
    /\ \E account \in Addresses, multisig \in Addresses, salt12 \in Salts :
          enc' = [op |-> "encodeAuthorizeExternalExecute", account |-> account,
                  multisig |-> multisig, salt12 |-> salt12,
                  result |-> encodeAuthorizeExternalExecute(account, multisig, salt12)]
    /\ UNCHANGED storeVars

CallEncodeSetCanExecuteExecute ==
    /\ \E account \in Addresses, multisig \in Addresses, fnSel \in Selectors,
          can \in BOOLEAN :
          LET keyHash == computeExternalKeyHash(multisig, Bytes(12, 0))
              target == Bytes(20, 50)
          IN enc' = [op |-> "encodeSetCanExecuteExecute", account |-> account,
                     keyHash |-> keyHash, target |-> target, fnSel |-> fnSel,
                     can |-> can,
                     result |-> encodeSetCanExecuteExecute(account, keyHash, target,
                                                           fnSel, can)]
    /\ UNCHANGED storeVars

NextEnc ==
    \/ BuildOpData
    \/ CallComputeExternalKeyHash
    \/ CallEncodeAuthorizeExternalExecute
    \/ CallEncodeSetCanExecuteExecute

\* The client library on its own: no request is handled.
SpecEnc == Init /\ [][NextEnc]_vars

\* ====================================================== a store of intents
\* The routes with one more intent created, the relayer configured and the
\* account used by no one else: the chain moves only by mining the
\* transactions the relayer broadcast.
InitStore == Init /\ walletClient

NextStore ==
    \/ \E h \in Slots : CreateStartUpTo(h, MaxIntents + 1)
    \/ \E h \in Slots : CreateGetConfig(h)
    \/ \E h \in Slots : CreateGetNonce(h)
    \/ \E h \in Slots : CreateStore(h)
    \/ \E h \in Slots : CreateReadFails(h)
    \/ \E h \in Slots : SignStart(h)
    \/ \E h \in Slots : SignDigest(h)
    \/ \E h \in Slots : SignDigestFails(h)
    \/ \E h \in Slots : SignTryOriginal(h)
    \/ \E h \in Slots : SignTryFlipped(h)
    \/ \E h \in Slots : SubmitStart(h)
    \/ \E h \in Slots : SubmitGetNonce(h)
    \/ \E h \in Slots : SubmitNonceReadFails(h)
    \/ \E h \in Slots : SubmitSent(h)
    \/ \E h \in Slots : SubmitSendFails(h)
    \/ \E h \in Slots : SubmitReceipt(h)
    \/ \E h \in Slots : SubmitReceiptFails(h)
    \/ \E h \in Slots : GET(h)
    \/ \E t \in TxHashes : Mine(t)

SpecStore == InitStore /\ [][NextStore]_vars

\* ================================================== the chain calls return
\* A promise of writeContract or waitForTransactionReceipt settles: the
\* call returns or throws (viem gives up waiting for a receipt after its
\* timeout), and the event loop then runs the handler's continuation.
Fairness ==
    \A h \in Slots :
        /\ WF_vars(SubmitSent(h) \/ SubmitSendFails(h))
        /\ WF_vars(SubmitReceipt(h) \/ SubmitReceiptFails(h))

\* The routes that write, with the relayer configured, and the chain:
\* get-intent, which only reads the store, is left out.
NextLive ==
    \/ \E h \in Slots : CreateStart(h)
    \/ \E h \in Slots : CreateGetConfig(h)
    \/ \E h \in Slots : CreateGetNonce(h)
    \/ \E h \in Slots : CreateStore(h)
    \/ \E h \in Slots : CreateReadFails(h)
    \/ \E h \in Slots : SignStart(h)
    \/ \E h \in Slots : SignDigest(h)
    \/ \E h \in Slots : SignDigestFails(h)
    \/ \E h \in Slots : SignTryOriginal(h)
    \/ \E h \in Slots : SignTryFlipped(h)
    \/ \E h \in Slots : SubmitStart(h)
    \/ \E h \in Slots : SubmitGetNonce(h)
    \/ \E h \in Slots : SubmitNonceReadFails(h)
    \/ \E h \in Slots : SubmitSent(h)
    \/ \E h \in Slots : SubmitSendFails(h)
    \/ \E h \in Slots : SubmitReceipt(h)
    \/ \E h \in Slots : SubmitReceiptFails(h)
    \/ \E t \in TxHashes : Mine(t)
    \/ \E k \in SeqKeys : ConsumeNonce(k)
    \/ UpgradeAccount

SpecLive == InitStore /\ [][NextLive]_vars /\ Fairness

\* ================================================================= claims
Error(r) == IF "error" \in DOMAIN r THEN r.error ELSE ""
Ok(r) == "ok" \in DOMAIN r /\ r.ok

\* Handler h is a submit-signature whose validation returns in this step and
\* which answers in it.
SignAnswers(h) ==
    /\ handlers[h].kind = "sign"
    /\ handlers[h].pc \in {"tryOriginal", "tryFlipped"}
    /\ handlers'[h].pc = "done"

\* The account validates sig against the digest of intent id.
Validates(id, sig) == unwrapAndValidateSignature(DB[id].digest, sig).ok

\* sig with its last byte toggled between 0x00 and 0x01.
Toggled(sig) == [sig EXCEPT !.flag = 1 - sig.flag]

Owners(id) == RangeOf(DB[id].owners)

EntriesOf(signatures, owner) ==
    { i \in 1..Len(signatures) : signatures[i].ownerKeyHash = owner }

\* This step writes status submitted (with a new transaction hash) to intent id.
StoresSubmitted(id) ==
    /\ DB'[id].status = "submitted"
    /\ DB[id].status # "submitted" \/ DB'[id].txHash # DB[id].txHash

\* C1: of two concurrent submit-intent requests on the same intent, both
\* started while the count is at least the threshold and the live nonce is the
\* stored one, at most one broadcasts an execute transaction.  Stated: no two
\* handlers of the same intent both await the receipt of a transaction they
\* broadcast while the live nonce is still the stored one.
C1_AtMostOneBroadcast ==
    ~ \E h1, h2 \in Slots :
        /\ h1 # h2
        /\ handlers[h1].kind = "submit" /\ handlers[h2].kind = "submit"
        /\ handlers[h1].pc = "waitForTransactionReceipt"
        /\ handlers[h2].pc = "waitForTransactionReceipt"
        /\ handlers[h1].id = handlers[h2].id
        /\ handlers[h1].loc.hash # handlers[h2].loc.hash
        /\ getNonce(DB[handlers[h1].id].seqKey) = DB[handlers[h1].id].nonce

\* C2: once an intent's status is confirmed or failed, no step changes it.
C2_ConfirmedFailedAbsorbing ==
    [][\A id \in DOMAIN DB :
          DB[id].status \in {"confirmed", "failed"} => DB'[id].status = DB[id].status]_vars

\* C3 as claimed: no step stores submitted while the live nonce of the
\* intent's sequence differs from the intent's stored nonce.
C3_NeverSubmittedWithStaleNonce ==
    [][\A id \in DOMAIN DB :
          StoresSubmitted(id)
             => getNonce(DB[id].seqKey) = DB[id].nonce]_vars

\* C3 as amended: a submit-intent that has passed the threshold check answers
\* nonce-mismatch, storing and broadcasting nothing, when the live nonce it
\* reads (of the default sequence) is not the stored nonce, and goes on to
\* the broadcast otherwise; and a step stores submitted only for a handler
\* whose broadcast returned and which had read a live nonce equal to the
\* stored one.
C3_SubmittedOnlyAfterFreshRead ==
    [][/\ \A h \in Slots :
            (/\ handlers[h].kind = "submit" /\ handlers[h].pc = "getNonce"
             /\ handlers'[h] # handlers[h]
             /\ Error(handlers'[h].result) # "read failed")
            => IF getNonce(0) # DB[handlers[h].id].nonce
               THEN /\ handlers'[h].pc = "done"
                    /\ Error(handlers'[h].result) = "Nonce mismatch"
                    /\ UNCHANGED <<DB, txs>>
               ELSE handlers'[h].pc = "writeContract"
       /\ \A id \in DOMAIN DB :
            StoresSubmitted(id)
            => \E h \in Slots :
                  /\ handlers[h].kind = "submit" /\ handlers[h].id = id
                  /\ handlers[h].pc = "writeContract"
                  /\ handlers'[h].pc = "waitForTransactionReceipt"
                  /\ handlers[h].loc.currentNonce = DB[id].nonce
                  /\ DB'[id].txHash = handlers'[h].loc.hash]_vars

\* A handler awaits its receipt for an intent with the stored nonce read.
C3_Witness ==
    \E h \in Slots :
        /\ handlers[h].kind = "submit"
        /\ handlers[h].pc = "waitForTransactionReceipt"
        /\ DB[handlers[h].id].status = "submitted"
        /\ DB[handlers[h].id].txHash = handlers[h].loc.hash

\* C4: under any interleaving of submit-signature requests an intent holds at
\* most one signature per owner, and a response carrying ready reports the
\* count stored when it is sent.
C4_OneSignaturePerOwner ==
    [][/\ \A id \in DOMAIN DB' : \A o \in KeyHashes :
            Cardinality(EntriesOf(DB'[id].signatures, o)) <= 1
       /\ \A h \in Slots :
            (SignAnswers(h) /\ "ready" \in DOMAIN handlers'[h].result)
            => LET r == handlers'[h].result
                   intent == DB'[handlers[h].id]
               IN /\ r.k = Len(intent.signatures)
                  /\ r.M = intent.threshold
                  /\ r.ready = (Len(intent.signatures) >= intent.threshold)]_vars

\* Two requests with signatures of the same authorized owner, not yet
\* recorded, are in flight together, both past the digest check.
C4_Witness ==
    \E h1, h2 \in Slots :
        /\ h1 # h2
        /\ handlers[h1].kind = "sign" /\ handlers[h2].kind = "sign"
        /\ handlers[h1].pc \in {"tryOriginal", "tryFlipped"}
        /\ handlers[h2].pc \in {"tryOriginal", "tryFlipped"}
        /\ handlers[h1].id = handlers[h2].id
        /\ handlers[h1].req.key = handlers[h2].req.key
        /\ handlers[h1].req.key \in Owners(handlers[h1].id)
        /\ \E v \in {handlers[h1].req, Toggled(handlers[h1].req)} :
              Validates(handlers[h1].id, v)
        /\ \E v \in {handlers[h2].req, Toggled(handlers[h2].req)} :
              Validates(handlers[h2].id, v)
        /\ EntriesOf(DB[handlers[h1].id].signatures, handlers[h1].req.key) = {}

\* C5: a submit-signature (past the digest check) whose signature the account
\* validates for a key that is not among the intent's owners answers
\* signer-not-authorized and leaves the store as it is, whatever is stored.
C5_NonOwnerRejected ==
    [][\A h \in Slots :
          (/\ SignAnswers(h)
           /\ handlers[h].req.key \notin Owners(handlers[h].id)
           /\ \E v \in {handlers[h].req, Toggled(handlers[h].req)} :
                 Validates(handlers[h].id, v))
          => /\ Error(handlers'[h].result) = "Signer not authorized"
             /\ UNCHANGED DB]_vars

\* A non-owner was turned away from an intent that holds signatures.
C5_Witness ==
    \E h \in Slots :
        /\ handlers[h].kind = "sign" /\ handlers[h].pc = "done"
        /\ Error(handlers[h].result) = "Signer not authorized"
        /\ Len(DB[handlers[h].id].signatures) >= DB[handlers[h].id].threshold

\* C6: every stored signature's owner identifier is one of the intent's owners.
C6_StoredSignersAreOwners ==
    \A id \in DOMAIN DB : \A i \in 1..Len(DB[id].signatures) :
        DB[id].signatures[i].ownerKeyHash \in Owners(id)

\* Every owner has signed, and a request in flight carries a valid signature
\* of a key that is no owner.
C6_Witness ==
    \E h \in Slots :
        /\ handlers[h].kind = "sign" /\ handlers[h].pc = "tryOriginal"
        /\ handlers[h].req.key \notin Owners(handlers[h].id)
        /\ Validates(handlers[h].id, handlers[h].req)
        /\ Len(DB[handlers[h].id].signatures) = Len(DB[handlers[h].id].owners)

\* C7: a step changes an intent's status to submitted only from collecting,
\* and only for a submit-intent that saw at least threshold signatures and
\* read a live nonce equal to the stored one before its broadcast.
C7_SubmittedOnlyFromCollecting ==
    [][\A id \in DOMAIN DB :
          (DB'[id].status = "submitted" /\ DB[id].status # "submitted")
          => /\ DB[id].status = "collecting"
             /\ \E h \in Slots :
                   /\ handlers[h].kind = "submit" /\ handlers[h].id = id
                   /\ handlers[h].pc = "writeContract"
                   /\ handlers[h].loc.currentNonce = DB[id].nonce
                   /\ Len(handlers[h].loc.executionData.opData.ownerSigs)
                         >= DB[id].threshold]_vars

\* C8: a submit-intent (past the threshold check) that reads the live nonce
\* after the account's nonce has moved away from the intent's stored nonce
\* answers nonce-mismatch with the stored nonce and the nonce it read, and
\* changes neither the store nor the set of broadcast transactions.
C8_NonceMismatchLeavesIntent ==
    [][\A h \in Slots :
          (/\ handlers[h].kind = "submit" /\ handlers[h].pc = "getNonce"
           /\ handlers'[h] # handlers[h]
           /\ Error(handlers'[h].result) # "read failed"
           /\ \/ getNonce(DB[handlers[h].id].seqKey) # DB[handlers[h].id].nonce
              \/ getNonce(0) # DB[handlers[h].id].nonce)
          => /\ handlers'[h].pc = "done"
             /\ handlers'[h].result =
                   [code |-> 400, error |-> "Nonce mismatch",
                    intentNonce |-> DB[handlers[h].id].nonce,
                    currentNonce |-> getNonce(0)]
             /\ UNCHANGED <<DB, txs>>]_vars

\* The scenario: the nonce was N at creation and is N+1 at submission; the
\* intent is still collecting, with its signatures and no hash.
C8_Witness ==
    \E h \in Slots :
        /\ handlers[h].kind = "submit" /\ handlers[h].pc = "done"
        /\ Error(handlers[h].result) = "Nonce mismatch"
        /\ handlers[h].result.intentNonce = DB[handlers[h].id].nonce
        /\ handlers[h].result.currentNonce =
              Nonce(DB[handlers[h].id].nonce.key, DB[handlers[h].id].nonce.seq + 1)
        /\ DB[handlers[h].id].status = "collecting"
        /\ DB[handlers[h].id].txHash = NoHash
        /\ Len(DB[handlers[h].id].signatures) >= DB[handlers[h].id].threshold

\* C9: a valid signature of an authorized owner who is already recorded is
\* answered with success and the stored count, and nothing in the store
\* changes; the answer to the submission that recorded the owner carried the
\* position of the owner's entry, so the two counts are the same whenever no
\* other owner was recorded in between.
C9_DuplicateIsIdempotent ==
    [][\A h \in Slots :
          LET id == handlers[h].id
              o == handlers[h].req.key
              r == handlers'[h].result
          IN (/\ SignAnswers(h)
              /\ o \in Owners(id)
              /\ \E v \in {handlers[h].req, Toggled(handlers[h].req)} : Validates(id, v))
             => IF EntriesOf(DB[id].signatures, o) # {}
                THEN /\ Ok(r)
                     /\ r.k = Len(DB[id].signatures)
                     /\ EntriesOf(DB[id].signatures, o) = {Len(DB[id].signatures)}
                           => EntriesOf(DB[id].signatures, o) = {r.k}
                     /\ UNCHANGED DB
                ELSE /\ Ok(r)
                     /\ EntriesOf(DB'[id].signatures, o) = {r.k}]_vars

\* The owner's first submission was answered with ready, the second without,
\* and both carry the same count.
C9_Witness ==
    \E h1, h2 \in Slots :
        /\ handlers[h1].kind = "sign" /\ handlers[h2].kind = "sign"
        /\ handlers[h1].pc = "done" /\ handlers[h2].pc = "done"
        /\ handlers[h1].id = handlers[h2].id
        /\ Ok(handlers[h1].result) /\ Ok(handlers[h2].result)
        /\ "ready" \in DOMAIN handlers[h1].result
        /\ "ready" \notin DOMAIN handlers[h2].result
        /\ handlers[h1].result.k = handlers[h2].result.k
        /\ handlers[h2].result.k = Len(DB[handlers[h1].id].signatures)

\* C10: a submit-signature (past the digest check) with a signature of an
\* authorized owner of which exactly one prehash-flag variant validates
\* answers with success, and the owner then has exactly one stored entry,
\* whichever variant was sent.
C10_EitherVariantAccepted ==
    [][\A h \in Slots :
          LET id == handlers[h].id
              sig == handlers[h].req
          IN (/\ handlers[h].kind = "sign"
              /\ handlers[h].pc \in {"tryOriginal", "tryFlipped"}
              /\ handlers'[h] # handlers[h]
              /\ sig.key \in Owners(id)
              /\ Validates(id, sig) # Validates(id, Toggled(sig)))
             => \/ /\ handlers[h].pc = "tryOriginal"
                   /\ ~Validates(id, sig)
                   /\ handlers'[h].pc = "tryFlipped"
                   /\ UNCHANGED DB
                \/ /\ handlers'[h].pc = "done"
                   /\ Ok(handlers'[h].result)
                   /\ Cardinality(EntriesOf(DB'[id].signatures, sig.key)) = 1]_vars

\* O2's signatures validate only with the flag set and are sent with the
\* flag clear: the stored one is the toggled variant.
C10_Witness ==
    \E id \in DOMAIN DB : \E i \in 1..Len(DB[id].signatures) :
        /\ DB[id].signatures[i].ownerKeyHash = "O2"
        /\ DB[id].signatures[i].sig.flag = 1
        /\ Validates(id, DB[id].signatures[i].sig)

\* C11: every stored intent has 1 <= threshold <= |owners|.
C11_ThresholdWithinOwners ==
    \A id \in DOMAIN DB :
        DB[id].threshold >= 1 /\ DB[id].threshold <= Len(DB[id].owners)

\* C12 helper: intent id was created under the scenario's policy.
HappyPolicy(id) ==
    DB[id].threshold = 2 /\ DB[id].owners = <<"O1", "O2", "O3">>

\* C12: for an intent of threshold 2 and owners O1, O2, O3: the submission
\* that stores the first signature answers collected 1, not ready, the one
\* that stores the second collected 2, ready; a submit-intent then passes the
\* threshold check, goes on to the broadcast when it reads the stored nonce,
\* stores submitted with the hash when the send returns, and, no other
\* submission being in flight, takes the intent from submitted to confirmed
\* when the receipt says success, answering with the recorded hash.
C12_HappyPath ==
    [][\A h \in Slots :
          LET id == handlers[h].id
              r == handlers'[h].result
          IN /\ (/\ SignAnswers(h) /\ HappyPolicy(id)
                 /\ Len(DB'[id].signatures) = Len(DB[id].signatures) + 1
                 /\ Len(DB'[id].signatures) <= 2)
                => /\ Ok(r) /\ r.M = 2
                   /\ r.k = Len(DB'[id].signatures)
                   /\ r.ready = (r.k = 2)
             /\ (/\ Free(h) /\ handlers'[h].kind = "submit" /\ handlers'[h] # handlers[h]
                 /\ handlers'[h].id \in DOMAIN DB /\ HappyPolicy(handlers'[h].id)
                 /\ walletClient /\ Len(DB[handlers'[h].id].signatures) >= 2)
                => handlers'[h].pc = "getNonce"
             /\ (/\ handlers[h].kind = "submit" /\ ~Free(h) /\ HappyPolicy(id)
                 /\ handlers'[h] # handlers[h])
                => /\ (handlers[h].pc = "getNonce" /\ getNonce(0) = DB[id].nonce
                          /\ Error(r) # "read failed")
                      => handlers'[h].pc = "writeContract"
                   /\ (handlers[h].pc = "writeContract" /\ Error(r) = "")
                      => /\ DB'[id].status = "submitted"
                         /\ DB'[id].txHash = handlers'[h].loc.hash
                         /\ handlers'[h].loc.hash \in DOMAIN txs' \ DOMAIN txs
                   /\ (/\ handlers[h].pc = "waitForTransactionReceipt" /\ Error(r) = ""
                       /\ txs[handlers[h].loc.hash].status = "success"
                       /\ \A g \in Slots \ {h} :
                             ~(handlers[g].kind = "submit" /\ ~Free(g)))
                      => /\ DB[id].status = "submitted"
                         /\ DB'[id].status = "confirmed"
                         /\ DB'[id].txHash = handlers[h].loc.hash
                         /\ Ok(r) /\ r.txHash = DB'[id].txHash]_vars

\* The scenario has run: O1 then O2 signed, the transaction succeeded and the
\* submit-intent answered with its hash.
C12_Witness ==
    \E id \in DOMAIN DB : \E h \in Slots :
        /\ HappyPolicy(id)
        /\ Len(DB[id].signatures) = 2
        /\ DB[id].signatures[1].ownerKeyHash = "O1"
        /\ DB[id].signatures[2].ownerKeyHash = "O2"
        /\ DB[id].status = "confirmed"
        /\ DB[id].txHash \in DOMAIN txs
        /\ txs[DB[id].txHash].status = "success"
        /\ handlers[h].kind = "submit" /\ handlers[h].id = id /\ Free(h)
        /\ Ok(handlers[h].result) /\ handlers[h].result.txHash = DB[id].txHash

\* C13: every successful submit-signature response, the duplicate's too,
\* carries the stored count k, the threshold M and ready = (k >= M).
C13_EveryResponseCarriesReady ==
    [][\A h \in Slots :
          (SignAnswers(h) /\ Ok(handlers'[h].result))
          => LET r == handlers'[h].result
                 intent == DB'[handlers[h].id]
             IN /\ r.k = Len(intent.signatures)
                /\ r.M = intent.threshold
                /\ "ready" \in DOMAIN r
                /\ r.ready = (r.k >= r.M)]_vars

\* The immutable fields of an intent.
SnapshotFields ==
    {"id", "account", "chainId", "externalKeyHash", "seqKey", "nonce", "digest",
     "calls", "threshold", "owners"}

\* C14: a create-intent that fails (no owners configured, or a chain read
\* that throws) stores nothing; the handler goes past the policy read only
\* with a non-empty owner list; a create-intent that succeeds adds exactly
\* one intent, under a new identifier, with status collecting, no signature
\* and no transaction hash, and leaves the others as they are; and the set
\* of stored intents changes in no other step.
C14_CreateIsAtomic ==
    [][/\ \A h \in Slots :
            (handlers[h].kind = "create" /\ ~Free(h) /\ handlers'[h] # handlers[h])
            => LET r == handlers'[h].result
               IN /\ handlers[h].pc = "getConfig"
                       => \/ Error(r) \in {"No owners configured for this keyHash",
                                           "read failed"}
                          \/ /\ handlers'[h].pc = "getNonce"
                             /\ Len(handlers'[h].loc.cfg.owners) > 0
                  /\ handlers'[h].pc # "done" => DB' = DB
                  /\ (handlers'[h].pc = "done" /\ Error(r) # "") => DB' = DB
                  /\ (handlers'[h].pc = "done" /\ Error(r) = "")
                       => /\ r.id \notin DOMAIN DB
                          /\ DOMAIN DB' = DOMAIN DB \cup {r.id}
                          /\ \A id \in DOMAIN DB : DB'[id] = DB[id]
                          /\ DB'[r.id].status = "collecting"
                          /\ DB'[r.id].signatures = << >>
                          /\ DB'[r.id].txHash = NoHash
                          /\ Len(DB'[r.id].owners) > 0
       /\ DOMAIN DB' # DOMAIN DB
            => \E h \in Slots :
                  /\ handlers[h].kind = "create" /\ handlers[h].pc = "computeDigest"
                  /\ handlers'[h].pc = "done" /\ Error(handlers'[h].result) = ""]_vars

\* A create-intent was turned away for want of owners and nothing is stored.
C14_Witness ==
    \E h \in Slots :
        /\ handlers[h].kind = "create" /\ Free(h)
        /\ Error(handlers[h].result) = "No owners configured for this keyHash"
        /\ DB = << >>

\* C15: no step removes a stored intent or changes its id, account, chain id,
\* policy key hash, sequence key, nonce, digest, call list, threshold or
\* owners.
C15_SnapshotIsImmutable ==
    [][\A id \in DOMAIN DB :
          /\ id \in DOMAIN DB'
          /\ \A f \in SnapshotFields : DB'[id][f] = DB[id][f]]_vars

\* The intent was signed, submitted and read while the account's nonce and
\* its digest function have both moved away from what was stored.
C15_Witness ==
    \E id \in DOMAIN DB : \E h \in Slots :
        /\ handlers[h].kind = "get" /\ handlers[h].id = id
        /\ handlers[h].result.code = 200
        /\ DB[id].status = "submitted"
        /\ Len(DB[id].signatures) > 0
        /\ getNonce(DB[id].seqKey) # DB[id].nonce
        /\ computeDigest(DB[id].calls, DB[id].nonce) # DB[id].digest

\* C16: a submit-signature whose computeDigest read returns a digest other
\* than the stored one answers digest-mismatch and stores nothing, whatever
\* signature it carries.
C16_DigestMismatchRejects ==
    [][\A h \in Slots :
          LET intent == DB[handlers[h].id]
          IN (/\ handlers[h].kind = "sign" /\ handlers[h].pc = "computeDigest"
              /\ handlers'[h] # handlers[h]
              /\ ~(handlers'[h].pc = "tryOriginal" /\ handlers'[h].loc.warn)
              /\ computeDigest(intent.calls, intent.nonce) # intent.digest)
             => /\ handlers'[h].pc = "done"
                /\ Error(handlers'[h].result) = "Digest mismatch"
                /\ UNCHANGED DB]_vars

\* One request was answered digest-mismatch, and another, carrying a valid
\* signature of an authorized owner, awaits the recomputed digest, which
\* differs from the stored one.
C16_Witness ==
    \E h1, h2 \in Slots :
        /\ handlers[h1].kind = "sign" /\ Free(h1)
        /\ Error(handlers[h1].result) = "Digest mismatch"
        /\ handlers[h2].kind = "sign" /\ handlers[h2].pc = "computeDigest"
        /\ handlers[h2].id = handlers[h1].id
        /\ handlers[h2].req.key \in Owners(handlers[h2].id)
        /\ Validates(handlers[h2].id, handlers[h2].req)
        /\ computeDigest(DB[handlers[h2].id].calls, DB[handlers[h2].id].nonce)
              # DB[handlers[h2].id].digest
        /\ DB[handlers[h2].id].signatures = << >>

\* C17: a submit-intent broadcasts only when the digest recomputed from the
\* intent's stored calls and nonce is the stored digest.
C17_SubmitRederivesDigest ==
    [][\A h \in Slots :
          LET intent == DB[handlers[h].id]
          IN (/\ handlers[h].kind = "submit" /\ handlers[h].pc = "writeContract"
              /\ handlers'[h].pc = "waitForTransactionReceipt")
             => computeDigest(intent.calls, intent.nonce) = intent.digest]_vars

\* C18: when the send of a submit-intent on a collecting intent fails, the
\* intent is stored as failed, without a transaction hash, and nothing was
\* broadcast.
C18_SendFailureStoresFailed ==
    [][\A h \in Slots :
          LET id == handlers[h].id
          IN (/\ handlers[h].kind = "submit" /\ handlers[h].pc = "writeContract"
              /\ handlers'[h].pc = "done"
              /\ DB[id].status = "collecting")
             => /\ DB'[id].status = "failed"
                /\ DB'[id].txHash = NoHash
                /\ Error(handlers'[h].result) = "submit failed"
                /\ UNCHANGED txs]_vars

\* A send failed on an intent nothing had been broadcast for.
C18_Witness ==
    \E h \in Slots :
        /\ handlers[h].kind = "submit" /\ Free(h)
        /\ Error(handlers[h].result) = "submit failed"
        /\ DB[handlers[h].id].status = "failed"
        /\ DB[handlers[h].id].txHash = NoHash
        /\ txs = << >>

C20_HashFollowsStatus ==
    \A id \in DOMAIN DB :
        /\ DB[id].status = "collecting" => DB[id].txHash = NoHash
        /\ DB[id].status \in {"submitted", "confirmed"} => DB[id].txHash \in DOMAIN txs

\* An intent is submitted under the hash of a transaction not yet mined.
C20_Witness ==
    \E id \in DOMAIN DB :
        /\ DB[id].status = "submitted"
        /\ DB[id].txHash \in DOMAIN txs
        /\ txs[DB[id].txHash].status = "pending"

\* C21: a submit-intent (relayer configured) on an intent that holds fewer
\* signatures than its threshold is answered "Not enough signatures" in the
\* step it arrives in, before any chain read, and changes neither the store
\* nor the broadcast transactions.
C21_BelowThresholdRejected ==
    [][\A h \in Slots :
          LET id == handlers'[h].id
          IN (/\ Takes(h) /\ handlers'[h].kind = "submit" /\ requests' # requests
              /\ id \in DOMAIN DB /\ walletClient
              /\ Len(DB[id].signatures) < DB[id].threshold)
             => /\ handlers'[h].pc = "done"
                /\ Error(handlers'[h].result) = "Not enough signatures"
                /\ UNCHANGED <<DB, txs, chainNonce>>]_vars

\* A submit-intent was turned away from an intent that holds one signature
\* of the two it needs.
C21_Witness ==
    \E h \in Slots :
        /\ handlers[h].kind = "submit" /\ Free(h)
        /\ Error(handlers[h].result) = "Not enough signatures"
        /\ Len(DB[handlers[h].id].signatures) = 1
        /\ DB[handlers[h].id].threshold = 2
        /\ DB[handlers[h].id].status = "collecting"
        /\ DB[handlers[h].id].txHash = NoHash

\* The value of the last four bytes of a word.
fromWord(bytes, at) ==
    bytes[at + 29] * 16777216 + bytes[at + 30] * 65536 + bytes[at + 31] * 256
       + bytes[at + 32]

\* The ABI decoding of a bytes[]: the word at the start is the offset of the
\* array, the word there its length, the words after it the offsets of the
\* elements, each a length word followed by that many bytes.
decodeBytesArray(bytes) ==
    LET array == fromWord(bytes, 0)
        n == fromWord(bytes, array)
        heads == array + WordSize
        elem(i) == heads + fromWord(bytes, heads + (i - 1) * WordSize)
    IN [i \in 1..n |->
           SubSeq(bytes, elem(i) + WordSize + 1,
                  elem(i) + WordSize + fromWord(bytes, elem(i)))]

\* The decoding of the envelope from its end: the last byte is the prehash
\* flag, the 32 bytes before it the policy key identifier, the rest the
\* ABI-encoded signature list.
decodeOuter(bytes) ==
    [ownerSigs |-> decodeBytesArray(SubSeq(bytes, 1, Len(bytes) - 33)),
     externalKeyHash |-> SubSeq(bytes, Len(bytes) - 32, Len(bytes) - 1),
     prehash |-> bytes[Len(bytes)]]

\* C22: decoding the envelope built from a signature list and a policy key
\* identifier gives back the list, in its order, and the identifier.
C22_EnvelopeRoundTrip ==
    enc.op = "opData"
    => /\ decodeOuter(enc.outer).ownerSigs = enc.ownerSigs
       /\ decodeOuter(enc.outer).externalKeyHash = enc.externalKeyHash

\* The envelope of two signatures of different lengths, neither a whole
\* number of words, under an identifier of zero bytes.
C22_Witness ==
    /\ enc.op = "opData"
    /\ Len(enc.ownerSigs) = 2
    /\ Len(enc.ownerSigs[1]) = 33 /\ Len(enc.ownerSigs[2]) = 1
    /\ enc.externalKeyHash = Bytes(32, 0)

\* hash(External key type 3, hash(policy address ++ salt))
ExternalKeyHashOf(multisig, salt12) ==
    keccak256(<<toHex(3, WordSize), keccak256(multisig \o salt12)>>)

\* C23: the external key hash the key-authorization encoder returns is
\* hash(3, hash(policy address ++ salt)), the hash computeExternalKeyHash
\* returns for the same policy address and salt, and the one the encoder
\* returns for them on every other account.
C23_KeyHashIgnoresAccount ==
    /\ enc.op = "computeExternalKeyHash"
          => enc.result = ExternalKeyHashOf(enc.multisig, enc.salt12)
    /\ enc.op = "encodeAuthorizeExternalExecute"
          => /\ enc.result.externalKeyHash = ExternalKeyHashOf(enc.multisig, enc.salt12)
             /\ enc.result.externalKeyHash
                   = computeExternalKeyHash(enc.multisig, enc.salt12)
             /\ \A account \in Addresses :
                   encodeAuthorizeExternalExecute(account, enc.multisig,
                                                  enc.salt12).externalKeyHash
                      = enc.result.externalKeyHash
             /\ \A multisig \in Addresses, salt12 \in Salts :
                   <<multisig, salt12>> # <<enc.multisig, enc.salt12>>
                   => encodeAuthorizeExternalExecute(enc.account, multisig,
                                                     salt12).externalKeyHash
                         # enc.result.externalKeyHash

\* The encoder was called for the second account with a salt that is not
\* all zeros, and the payload is addressed to that account.
C23_Witness ==
    /\ enc.op = "encodeAuthorizeExternalExecute"
    /\ enc.account = Bytes(20, 34)
    /\ enc.multisig = Bytes(20, 17)
    /\ enc.salt12 = Bytes(12, 5)
    /\ enc.result.to = enc.account

\* C24: an encoder given a salt that is not 12 bytes long, or a selector
\* that is not 4 bytes long, throws; given well-formed inputs it returns.
C24_MalformedInputFails ==
    /\ enc.op \in {"computeExternalKeyHash", "encodeAuthorizeExternalExecute"}
          => ("thrown" \in DOMAIN enc.result) = (Len(enc.salt12) # 12)
    /\ enc.op = "encodeSetCanExecuteExecute"
          => ("thrown" \in DOMAIN enc.result) = (Len(enc.fnSel) # 4)

\* C25: a submit-signature answers digest-mismatch, without a validation
\* call, whenever the digest the account computes for the intent differs
\* from the stored one; a validation call is made only after the digest
\* step; a signature neither of whose two variants validates is answered
\* invalid-signature, whoever it is attributed to; one with a variant that
\* validates for a key that is no owner is answered signer-not-authorized;
\* and only one that validates for an owner already recorded is answered as
\* a duplicate.
C25_ChecksInOrder ==
    [][\A h \in Slots :
          LET id == handlers[h].id
              sig == handlers[h].req
              r == handlers'[h].result
              valid == Validates(id, sig) \/ Validates(id, Toggled(sig))
          IN /\ (/\ handlers[h].kind = "sign" /\ handlers[h].pc = "computeDigest"
                 /\ handlers'[h] # handlers[h]
                 /\ computeDigest(DB[id].calls, DB[id].nonce) # DB[id].digest)
                => /\ handlers'[h].pc = "done"
                   /\ Error(r) \in {"Digest mismatch", "read failed"}
             /\ (handlers[h].kind = "sign" /\ handlers'[h].pc \in {"tryOriginal", "tryFlipped"}
                    /\ handlers'[h] # handlers[h])
                => handlers[h].pc = IF handlers'[h].pc = "tryOriginal"
                                    THEN "computeDigest" ELSE "tryOriginal"
             /\ SignAnswers(h)
                => /\ ~valid => Error(r) = "Invalid signature"
                   /\ (valid /\ sig.key \notin Owners(id))
                         => Error(r) = "Signer not authorized"
                   /\ (Ok(r) /\ "ready" \notin DOMAIN r)
                         => /\ valid /\ sig.key \in Owners(id)
                            /\ EntriesOf(DB[id].signatures, sig.key) # {}]_vars

\* C26: a submit-signature validates the signature as received and, only if
\* that one is invalid, the signature with its last byte toggled, and then
\* answers; when neither validates it answers invalid-signature and the
\* store is unchanged.
C26_AtMostTwoAttempts ==
    [][\A h \in Slots :
          LET id == handlers[h].id
              sig == handlers[h].req
              r == handlers'[h].result
          IN (handlers[h].kind = "sign" /\ handlers'[h] # handlers[h])
             => /\ handlers[h].pc = "tryOriginal"
                   => /\ handlers'[h].pc \in {"tryFlipped", "done"}
                      /\ handlers'[h].pc = "tryFlipped"
                            => /\ ~Validates(id, sig)
                               /\ handlers'[h].req = sig
                               /\ UNCHANGED DB
                      /\ Validates(id, sig) => handlers'[h].pc = "done"
                /\ handlers[h].pc = "tryFlipped"
                   => /\ handlers'[h].pc = "done"
                      /\ DB' # DB
                            => LET sigs == DB'[id].signatures
                               IN sigs[Len(sigs)].sig
                                     = [key |-> sig.key, body |-> sig.body,
                                        flag |-> 1 - sig.flag, long |-> sig.long,
                                        digest |-> sig.digest]
                /\ (SignAnswers(h) /\ ~Validates(id, sig) /\ ~Validates(id, Toggled(sig)))
                   => /\ r = [code |-> 400, error |-> "Invalid signature"]
                      /\ UNCHANGED DB]_vars

\* A signature was recorded in its toggled variant, which only the retry
\* validates, and another request was answered invalid-signature.
C26_Witness ==
    /\ \E id \in DOMAIN DB : \E i \in 1..Len(DB[id].signatures) :
          /\ DB[id].signatures[i].sig.flag = 1
          /\ DB[id].signatures[i].sig.body = "hashed"
    /\ \E h \in Slots :
          /\ handlers[h].kind = "sign" /\ Free(h)
          /\ Error(handlers[h].result) = "Invalid signature"

\* C27: a submit-signature whose compute-digest read failed answers with an
\* error and leaves the store unchanged.
C27_UnverifiedDigestBlocks ==
    [][\A h \in Slots :
          (/\ handlers[h].kind = "sign" /\ handlers[h].pc = "tryOriginal"
           /\ handlers[h].loc.warn
           /\ handlers'[h].pc = "done")
          => /\ Error(handlers'[h].result) # ""
             /\ UNCHANGED DB]_vars

\* The signatures of intent, in the order stored.
StoredSigs(intent) == [i \in 1..Len(intent.signatures) |-> intent.signatures[i].sig]

IsPrefix(s, t) == Len(s) <= Len(t) /\ \A i \in 1..Len(s) : s[i] = t[i]

\* C28: the payload a submit-intent prepares is the intent's call list with
\* the stored nonce, the stored signatures in insertion order, the policy key
\* identifier and the flag 0x00; the transaction it broadcasts carries that
\* payload under the batch-mode-with-operation-data selector, and its
\* signatures are the first ones of the list stored at the broadcast.
C28_BroadcastPayload ==
    [][\A h \in Slots :
          LET id == handlers'[h].id
          IN /\ (/\ Takes(h) /\ requests' # requests
                 /\ handlers'[h].kind = "submit" /\ handlers'[h].pc = "getNonce")
                => handlers'[h].loc.executionData
                      = [calls |-> DB[id].calls,
                         opData |-> [nonce |-> DB[id].nonce,
                                     ownerSigs |-> StoredSigs(DB[id]),
                                     externalKeyHash |-> DB[id].externalKeyHash,
                                     prehash |-> 0]]
             /\ (/\ handlers[h].kind = "submit" /\ handlers[h].pc = "getNonce"
                 /\ handlers'[h].pc = "writeContract")
                => handlers'[h].loc.executionData = handlers[h].loc.executionData
             /\ (/\ handlers[h].kind = "submit" /\ handlers[h].pc = "writeContract"
                 /\ handlers'[h].pc = "waitForTransactionReceipt")
                => LET tx == txs'[handlers'[h].loc.hash]
                   IN /\ handlers'[h].loc.hash \notin DOMAIN txs
                      /\ tx.intent = id
                      /\ tx.mode = MODE_SINGLE_WITH_OPDATA
                      /\ tx.mode # MODE_SINGLE_NO_OPDATA
                      /\ tx.data = handlers[h].loc.executionData
                      /\ tx.data.calls = DB[id].calls
                      /\ tx.data.opData.nonce = DB[id].nonce
                      /\ tx.data.opData.externalKeyHash = DB[id].externalKeyHash
                      /\ tx.data.opData.prehash = 0
                      /\ IsPrefix(tx.data.opData.ownerSigs, StoredSigs(DB[id]))
                      /\ Len(tx.data.opData.ownerSigs) >= DB[id].threshold]_vars

\* A broadcast transaction carries two signatures, one of them stored in
\* its prehashed variant, under the flag 0x00.
C28_Witness ==
    \E t \in DOMAIN txs :
        LET o == txs[t].data.opData
        IN /\ Len(o.ownerSigs) = 2
           /\ \E i \in 1..Len(o.ownerSigs) : o.ownerSigs[i].flag = 1
           /\ o.prehash = 0
           /\ txs[t].mode = MODE_SINGLE_WITH_OPDATA

\* C29: across every step a stored intent stays stored, changes in nothing
\* but its signatures, status and transaction hash, and keeps its signature
\* list as a prefix of the new one; the list grows by at most one entry, and
\* only in the step in which a submit-signature answers that it recorded
\* the signature.
C29_SignaturesAppendOnly ==
    [][\A id \in DOMAIN DB :
          /\ id \in DOMAIN DB'
          /\ \A f \in DOMAIN DB[id] \ {"signatures", "status", "txHash"} :
                DB'[id][f] = DB[id][f]
          /\ IsPrefix(DB[id].signatures, DB'[id].signatures)
          /\ Len(DB'[id].signatures) <= Len(DB[id].signatures) + 1
          /\ DB'[id].signatures # DB[id].signatures
                => /\ Cardinality({h \in Slots : handlers'[h] # handlers[h]}) = 1
                   /\ \E h \in Slots :
                         /\ SignAnswers(h) /\ handlers[h].id = id
                         /\ Ok(handlers'[h].result)
                         /\ handlers'[h].result.k = Len(DB'[id].signatures)
                   /\ DB'[id].status = DB[id].status]_vars

\* An intent with two recorded signatures has been submitted.
C29_Witness ==
    \E id \in DOMAIN DB :
        /\ Len(DB[id].signatures) = 2
        /\ DB[id].signatures[1].at < DB[id].signatures[2].at
        /\ DB[id].status = "submitted"

\* C30: a signature that validates for an owner not yet recorded is
\* appended also when the count has reached the threshold, and the count
\* never exceeds the number of owners.
C30_CollectionNotGated ==
    [][\A h \in Slots :
          LET id == handlers[h].id
              sig == handlers[h].req
              r == handlers'[h].result
          IN /\ (/\ SignAnswers(h)
                 /\ Validates(id, sig) \/ Validates(id, Toggled(sig))
                 /\ sig.key \in Owners(id)
                 /\ EntriesOf(DB[id].signatures, sig.key) = {}
                 /\ Len(DB[id].signatures) >= DB[id].threshold)
                => /\ Len(DB'[id].signatures) = Len(DB[id].signatures) + 1
                   /\ DB'[id].signatures[Len(DB'[id].signatures)].ownerKeyHash = sig.key
                   /\ Ok(r) /\ r.ready
                   /\ r.k = Len(DB'[id].signatures)
             /\ \A i \in DOMAIN DB' :
                   Len(DB'[i].signatures) <= Cardinality(RangeOf(DB'[i].owners))]_vars

\* An intent holds more signatures than its threshold.
C30_Witness ==
    \E id \in DOMAIN DB :
        /\ DB[id].threshold >= 1
        /\ Len(DB[id].signatures) > DB[id].threshold

\* How far a handler is: the awaits of each route in the order of its code.
Rank(pc) ==
    CASE pc \in {"getConfig"} -> 1
      [] pc \in {"getNonce"} -> 2
      [] pc \in {"computeDigest", "writeContract"} -> 3
      [] pc \in {"tryOriginal", "waitForTransactionReceipt"} -> 4
      [] pc \in {"tryFlipped"} -> 5
      [] pc = "done" -> 6

\* C31: a request in flight only moves forward through the awaits of its
\* route, so it passes each of them, the nonce read and the send included,
\* at most once; a transaction is broadcast only by the step in which a
\* send returns, one per step; and a finished request holds one response,
\* with a status code, which stays until the slot takes another request.
C31_NoInternalRetry ==
    [][/\ \A h \in Slots :
            /\ (~Free(h) /\ handlers'[h] # handlers[h])
               => /\ handlers'[h].kind = handlers[h].kind
                  /\ Rank(handlers'[h].pc) > Rank(handlers[h].pc)
                  /\ requests' = requests
            /\ (Free(h) /\ handlers'[h] # handlers[h])
               => requests' = requests + 1
            /\ (handlers'[h].pc = "done" /\ handlers'[h].kind # "idle")
               => /\ handlers'[h].result # Nil
                  /\ "code" \in DOMAIN handlers'[h].result
                  /\ handlers'[h].result.code = 200 <=> Error(handlers'[h].result) = ""
       /\ Cardinality({h \in Slots : handlers'[h] # handlers[h]}) <= 1
       /\ DOMAIN txs' # DOMAIN txs
            => /\ Cardinality(DOMAIN txs') = Cardinality(DOMAIN txs) + 1
               /\ \E h \in Slots :
                     /\ handlers[h].kind = "submit" /\ handlers[h].pc = "writeContract"
                     /\ handlers'[h].pc = "waitForTransactionReceipt"]_vars

\* A submit-intent whose send failed has answered with the failure, and no
\* transaction was broadcast.
C31_Witness ==
    /\ txs = << >>
    /\ \E h \in Slots :
          /\ handlers[h].kind = "submit" /\ Free(h)
          /\ handlers[h].result = [code |-> 500, error |-> "submit failed"]
          /\ DB[handlers[h].id].status = "failed"

\* C32: the step that appends a signature to an intent leaves its status
\* and transaction hash as they are, whatever submission wrote them and
\* whenever the signing request was received; the step that changes its
\* status or transaction hash leaves its signature list as it is; and no
\* step shortens the list.
C32_NoLostUpdate ==
    [][\A id \in DOMAIN DB :
          /\ DB'[id].signatures # DB[id].signatures
                => /\ DB'[id].status = DB[id].status
                   /\ DB'[id].txHash = DB[id].txHash
          /\ (DB'[id].status # DB[id].status \/ DB'[id].txHash # DB[id].txHash)
                => DB'[id].signatures = DB[id].signatures
          /\ IsPrefix(DB[id].signatures, DB'[id].signatures)
          /\ \A h \in Slots :
                (/\ SignAnswers(h) /\ handlers[h].id = id
                 /\ Ok(handlers'[h].result) /\ "ready" \in DOMAIN handlers'[h].result)
                => /\ Len(DB'[id].signatures) = Len(DB[id].signatures) + 1
                   /\ DB'[id].status = DB[id].status
                   /\ DB'[id].txHash = DB[id].txHash]_vars

\* An intent is stored as submitted with the hash of a transaction that
\* carries fewer signatures than the intent holds: one was appended after
\* the submission had read the list.
C32_Witness ==
    \E id \in DOMAIN DB :
        /\ DB[id].status = "submitted"
        /\ DB[id].txHash \in DOMAIN txs
        /\ Len(DB[id].signatures) > Len(txs[DB[id].txHash].data.opData.ownerSigs)

\* C33: every broadcast transaction carries at least threshold signatures
\* of its intent, each the signature stored at its place in the intent's
\* list, for an owner of the intent, no two for the same owner.
C33_BroadcastMeetsThreshold ==
    \A t \in DOMAIN txs :
        LET intent == DB[txs[t].intent]
            sigs == txs[t].data.opData.ownerSigs
        IN /\ Len(sigs) >= intent.threshold
           /\ intent.threshold >= 1
           /\ Len(sigs) <= Len(intent.signatures)
           /\ \A i \in 1..Len(sigs) :
                 /\ intent.signatures[i].sig = sigs[i]
                 /\ intent.signatures[i].ownerKeyHash \in RangeOf(intent.owners)
                 /\ intent.signatures[i].ownerKeyHash = sigs[i].key
           /\ \A i, j \in 1..Len(sigs) :
                 intent.signatures[i].ownerKeyHash = intent.signatures[j].ownerKeyHash
                 => i = j

\* A transaction was broadcast with exactly threshold signatures for an
\* intent that by now holds one more, appended while the submission ran.
C33_Witness ==
    \E t \in DOMAIN txs :
        /\ Len(txs[t].data.opData.ownerSigs) = DB[txs[t].intent].threshold
        /\ Len(DB[txs[t].intent].signatures) > DB[txs[t].intent].threshold

\* C34: a submit-intent that reads the live nonce while the account's
\* counter of the intent's own sequence is what it was at creation is not
\* answered nonce-mismatch.
C34_OwnSequenceCompared ==
    [][\A h \in Slots :
          LET intent == DB[handlers[h].id]
          IN (/\ handlers[h].kind = "submit" /\ handlers[h].pc = "getNonce"
              /\ handlers'[h] # handlers[h]
              /\ walletClient
              /\ Len(intent.signatures) >= intent.threshold
              /\ getNonce(intent.seqKey) = intent.nonce)
             => Error(handlers'[h].result) # "Nonce mismatch"]_vars

\* C35: an intent whose status is no longer collecting keeps its signature
\* list across every step.
C35_ClosedAfterSubmission ==
    [][\A id \in DOMAIN DB :
          DB[id].status # "collecting"
          => DB'[id].signatures = DB[id].signatures]_vars

\* C36: whenever a submit-intent has passed the threshold and nonce checks
\* and is about to send, its intent is later stored as confirmed or failed.
C36_SubmissionSettles ==
    \A h \in Slots, id \in IntentIds :
        (handlers[h].kind = "submit" /\ handlers[h].pc = "writeContract"
           /\ handlers[h].id = id)
        ~> (id \in DOMAIN DB /\ DB[id].status \in {"confirmed", "failed"})

\* A submit-intent has answered with the receipt of its transaction and the
\* intent is stored as confirmed.
C36_Witness ==
    \E h \in Slots :
        /\ handlers[h].kind = "submit" /\ Free(h)
        /\ Ok(handlers[h].result)
        /\ handlers[h].result.status = "success"
        /\ DB[handlers[h].id].status = "confirmed"

\* C37: after every step, each stored entry holds a signature the account
\* validates against the intent's stored digest, with the owner identifier
\* that validation returns; and the entry a submit-signature appends holds
\* the signature as received when that one validates, and otherwise the
\* one with the last byte toggled.
C37_StoredVariantValidates ==
    [][/\ \A id \in DOMAIN DB' : \A i \in 1..Len(DB'[id].signatures) :
             LET entry == DB'[id].signatures[i]
                 r == unwrapAndValidateSignature(DB'[id].digest, entry.sig)
             IN r.ok /\ ~r.reverted /\ r.ownerKh = entry.ownerKeyHash
       /\ \A h \in Slots :
             LET id == handlers[h].id
                 received == handlers[h].req
                 sigs == DB'[id].signatures
             IN (SignAnswers(h) /\ DB'[id].signatures # DB[id].signatures)
                => /\ sigs[Len(sigs)].sig
                        = IF Validates(id, received) THEN received ELSE Toggled(received)
                   /\ sigs[Len(sigs)].ownerKeyHash = received.key]_vars

\* Two entries are stored, one of them in the toggled variant of the
\* signature that was received.
C37_Witness ==
    \E id \in DOMAIN DB :
        /\ Len(DB[id].signatures) = 2
        /\ \E i \in 1..2 :
              /\ DB[id].signatures[i].ownerKeyHash = "O2"
              /\ DB[id].signatures[i].sig.flag = 1
              /\ Validates(id, DB[id].signatures[i].sig)
              /\ ~Validates(id, Toggled(DB[id].signatures[i].sig))

\* C38: the digest of every stored intent is the digest of its stored call
\* list and its stored nonce under the account implementation in place when
\* the intent was stored, and it never changes; and a submit-signature
\* whose compute-digest read is made under that implementation is not
\* answered digest-mismatch.
C38_DigestOfStoredFields ==
    [][/\ \A id \in DOMAIN DB' :
             /\ DB'[id].digest = [calls |-> DB'[id].calls, nonce |-> DB'[id].nonce,
                                  ver |-> DB'[id].digest.ver]
             /\ DB'[id].nonce.key = DB'[id].seqKey
             /\ IF id \in DOMAIN DB THEN DB'[id].digest = DB[id].digest
                                     ELSE DB'[id].digest.ver = digestVer
       /\ \A h \in Slots :
             (/\ handlers[h].kind = "sign" /\ handlers[h].pc = "computeDigest"
              /\ handlers'[h] # handlers[h]
              /\ digestVer = DB[handlers[h].id].digest.ver)
             => /\ Error(handlers'[h].result) # "Digest mismatch"
                /\ handlers'[h].pc = "tryOriginal"]_vars

\* A submit-signature has passed the digest check of an intent of the
\* second sequence, whose nonce counter has moved since the intent was
\* created.
C38_Witness ==
    \E h \in Slots :
        /\ handlers[h].kind = "sign" /\ handlers[h].pc = "tryOriginal"
        /\ ~handlers[h].loc.warn
        /\ DB[handlers[h].id].seqKey = 1
        /\ getNonce(1) # DB[handlers[h].id].nonce

\* C39: across every step no intent leaves the store; a step that stores a
\* new intent is the last step of a create-intent, stores it under an
\* identifier no stored intent had, and leaves every stored intent as it
\* was; a step that changes a stored intent is a step of a submit-signature
\* or submit-intent on its identifier and changes no other intent; and a
\* get-intent, of a known or an unknown identifier, changes nothing but its
\* own response.
C39_IntentsIndependent ==
    [][/\ \A id \in DOMAIN DB :
             /\ id \in DOMAIN DB'
             /\ DB'[id] # DB[id]
                   => /\ \E h \in Slots :
                            /\ handlers'[h] # handlers[h]
                            /\ handlers[h].kind \in {"sign", "submit"}
                            /\ handlers[h].id = id
                      /\ DOMAIN DB' = DOMAIN DB
                      /\ \A j \in DOMAIN DB \ {id} : DB'[j] = DB[j]
       /\ DOMAIN DB' # DOMAIN DB
             => \E h \in Slots :
                   LET new == handlers'[h].result.id
                   IN /\ handlers[h].kind = "create" /\ handlers[h].pc = "computeDigest"
                      /\ handlers'[h].pc = "done"
                      /\ new \notin DOMAIN DB
                      /\ DOMAIN DB' = DOMAIN DB \cup {new}
                      /\ DB'[new].id = new
                      /\ DB'[new].signatures = << >>
                      /\ \A j \in DOMAIN DB : DB'[j] = DB[j]
       /\ \A h \in Slots :
             (handlers'[h] # handlers[h] /\ handlers'[h].kind = "get")
             => /\ UNCHANGED <<DB, walletClient, chainNonce, digestVer, now, txs>>
                /\ \A g \in Slots \ {h} : handlers'[g] = handlers[g]
                /\ handlers'[h].result.code
                      = IF handlers'[h].id \in DOMAIN DB THEN 200 ELSE 404]_vars

\* Two intents are stored: one was signed and submitted, the other is as it
\* was created.
C39_Witness ==
    \E i, j \in DOMAIN DB :
        /\ i # j
        /\ DB[i].status # "collecting"
        /\ Len(DB[i].signatures) >= 1
        /\ DB[j].status = "collecting"
        /\ DB[j].signatures = << >>
        /\ DB[j].txHash = NoHash

====
